---- MODULE Spec2Model ----
(***************************************************************************)
(* A model of create_admin_levels.py: the single-run pipeline main() that  *)
(* extracts an Admin 2 shapefile from a zip archive into a temporary       *)
(* directory, reprojects it to EPSG:4326, derives the Admin 0 / Admin 1 /  *)
(* Admin 2 / ALL datasets, saves them and packages them into a new zip.    *)
(*                                                                         *)
(* A dataset (GeoDataFrame) is a record [crs, cols, rows]: rows is the     *)
(* sequence of records in row order, each a function from the column names *)
(* in cols to values.  Attribute values are strings, Null stands for a     *)
(* missing value (None / NaN).  A geometry is a set of coordinates; a      *)
(* coordinate is a pair <<unit, point>>: the point it locates and the unit *)
(* its numbers are expressed in (metres or degrees).                       *)
(***************************************************************************)
EXTENDS Integers, Sequences, FiniteSets, TLC

VARIABLES
    pc,           \* the statement main() is about to execute
    run,          \* number of runs of main() started so far
    input_zip,    \* the file at path input_zip: [exists, entries]
    output_zip,   \* the file at path output_zip: [exists, entries]
    temp_dir,     \* the TemporaryDirectory: [exists, files]
    gdf,          \* the loaded (then reprojected) source dataset
    adm0,         \* the Admin 0 dataset
    adm1,         \* the Admin 1 dataset
    adm2,         \* the Admin 2 dataset
    all_levels,   \* the combined dataset
    admin_level,  \* index of the packaging loop over base names
    ext,          \* index of the packaging loop over extensions
    failedAt,     \* history: the statement at which this run raised, or "none"
    nReproject,   \* history: number of to_crs calls made by this run
    preOut,       \* history: the file at output_zip when this run started
    lastDone      \* history: the file at output_zip when a run last completed

vars == <<pc, run, input_zip, output_zip, temp_dir, gdf, adm0, adm1, adm2,
          all_levels, admin_level, ext, failedAt, nReproject, preOut, lastDone>>

(***************************************************************************)
(* Bounds of the model.                                                    *)
(***************************************************************************)
MaxRecs == 2      \* most records of a source dataset drawn by InitFn
MaxRuns == 3      \* most runs of main() in one behaviour

(***************************************************************************)
(* Values.                                                                 *)
(***************************************************************************)
Null == "<null>"

EPSG3395 == "EPSG:3395"
EPSG4326 == "EPSG:4326"

\* The unit the coordinates of a CRS are expressed in.
UnitsOf(crs) == IF crs = EPSG4326 THEN "deg" ELSE "m"

\* The column lists main() selects.
ADM0_COLS == {"ADM0_PCODE", "ADM0_EN", "geometry"}
ADM1_COLS == {"ADM0_PCODE", "ADM0_EN", "ADM1_PCODE", "ADM1_EN", "ADM1_TYPE",
              "geometry"}
ADM2_COLS == {"ADM0_PCODE", "ADM0_EN", "ADM1_PCODE", "ADM1_EN", "ADM1_TYPE",
              "ADM2_PCODE", "ADM2_EN", "ADM2_TYPE", "geometry"}

\* The columns of the source shapefile: the eight fields main() refers to, the
\* geometry, and one field main() never refers to.
SRC_COLS == ADM2_COLS \cup {"Shape_Area"}

\* The code values of the model in lexicographic (string) order, the order
\* in which a sorted group-by returns its keys.
CodeOrder ==
    <<"KM", "MG", "MG11", "MG12", "MG13", "MG14", "MG15", "MG16", "MG17",
      "MG18", "MG19", "MG20", "MG21", "MG22", "MG23", "MG24", "MG25", "MG26",
      "MG27", "MG28", "MG29", "MG30", "MG31", "MG32">>

\* The place of a key in the sort order; a missing key sorts last.
Rank(k) ==
    IF k = Null THEN Len(CodeOrder) + 1
    ELSE CHOOSE i \in DOMAIN CodeOrder : CodeOrder[i] = k

\* A dataset that has not been assigned yet.
NoData == [crs |-> Null, cols |-> {}, rows |-> <<>>]

(***************************************************************************)
(* GeoDataFrame operations.                                                *)
(***************************************************************************)

\* A to_crs whose result is thrown away: the dataset stays as it was.
to_crs_discarded(ds, target) == ds

\* gdf.to_crs(target): every coordinate re-expressed in the target CRS.
to_crs(ds, target) ==
    [crs  |-> target,
     cols |-> ds.cols,
     rows |-> [i \in DOMAIN ds.rows |->
                 [ds.rows[i] EXCEPT !["geometry"] =
                     {<<UnitsOf(target), p[2]>> : p \in @}]]]

\* The values of a sequence that are not missing, in order.
NonNull(vals) == SelectSeq(vals, LAMBDA v : v # Null)

\* The last non-missing entry of a column within a group.
first_last(vals) ==
    IF NonNull(vals) = <<>> THEN Null ELSE NonNull(vals)[Len(NonNull(vals))]

\* aggfunc='first': the first non-missing entry of a column within a group,
\* missing when every entry is.
first(vals) == IF NonNull(vals) = <<>> THEN Null ELSE Head(NonNull(vals))

\* The group keys of a group-by that keeps the rows whose key is missing.
GroupKeys_keepna(ds, by) == {ds.rows[i][by] : i \in DOMAIN ds.rows}

\* The group keys of dissolve(by=...): the distinct values of the column;
\* rows whose key is missing belong to no group.
GroupKeys(ds, by) == {ds.rows[i][by] : i \in DOMAIN ds.rows} \ {Null}

RECURSIVE SortKeys(_)
\* The keys in sorted order (dissolve sorts its groups).
SortKeys(S) ==
    IF S = {} THEN <<>>
    ELSE LET m == CHOOSE k \in S : \A o \in S : Rank(k) <= Rank(o)
         IN  <<m>> \o SortKeys(S \ {m})

\* The rows of a group, in row order.
Members(ds, by, k) == SelectSeq(ds.rows, LAMBDA r : r[by] = k)

\* A union that keeps only the first member's geometry.
union_first(rows) == rows[1]["geometry"]

\* The geometric union of the rows' geometries.
union_all(rows) == UNION {rows[i]["geometry"] : i \in DOMAIN rows}

\* gdf.dissolve(by=by, aggfunc='first'): one row per group, indexed by the
\* group key; the geometry is the union of the group's geometries and every
\* other column holds first() of the group's values.
dissolve(ds, by) ==
    LET keys == SortKeys(GroupKeys(ds, by))
        rest == ds.cols \ {by}
        agg(k) ==
            LET m == Members(ds, by, k)
            IN  [c \in rest |->
                   IF c = "geometry" THEN union_all(m)
                   ELSE first([i \in DOMAIN m |-> m[i][c]])]
    IN  [crs   |-> ds.crs,
         by    |-> by,
         index |-> keys,
         cols  |-> rest,
         rows  |-> [i \in DOMAIN keys |-> agg(keys[i])]]

\* reset_index(): the index becomes a column again.
reset_index(d) ==
    [crs  |-> d.crs,
     cols |-> d.cols \cup {d.by},
     rows |-> [i \in DOMAIN d.rows |->
                 [c \in d.cols \cup {d.by} |->
                    IF c = d.by THEN d.index[i] ELSE d.rows[i][c]]]]

\* A column selection that keeps every column.
select_all(ds, cols) == ds

\* ds[[cols]]: the dataset projected onto the listed columns.
select(ds, cols) ==
    [crs  |-> ds.crs,
     cols |-> cols,
     rows |-> [i \in DOMAIN ds.rows |-> [c \in cols |-> ds.rows[i][c]]]]

\* A level tag that is always 0.
with_admLevel_zero(ds, level) ==
    [crs  |-> ds.crs,
     cols |-> ds.cols \cup {"admLevel"},
     rows |-> [i \in DOMAIN ds.rows |->
                 [c \in ds.cols \cup {"admLevel"} |->
                    IF c = "admLevel" THEN 0 ELSE ds.rows[i][c]]]]

\* d = ds.copy(); d['admLevel'] = level
with_admLevel(ds, level) ==
    [crs  |-> ds.crs,
     cols |-> ds.cols \cup {"admLevel"},
     rows |-> [i \in DOMAIN ds.rows |->
                 [c \in ds.cols \cup {"admLevel"} |->
                    IF c = "admLevel" THEN level ELSE ds.rows[i][c]]]]

\* A row widened to the columns cols, missing where it has no value.
Widen(r, cols) == [c \in cols |-> IF c \in DOMAIN r THEN r[c] ELSE Null]

\* gpd.GeoDataFrame(pd.concat([a, b, c], ignore_index=True)): the rows of a,
\* then of b, then of c, over the union of the columns.
concat(a, b, c) ==
    LET cols == a.cols \cup b.cols \cup c.cols
        rows == a.rows \o b.rows \o c.rows
    IN  [crs  |-> a.crs,
         cols |-> cols,
         rows |-> [i \in DOMAIN rows |-> Widen(rows[i], cols)]]

\* The four derivations of main(), as functions of the reprojected source.
deriveAdmin0(src) == select(reset_index(dissolve(src, "ADM0_PCODE")), ADM0_COLS)
deriveAdmin1(src) == select(reset_index(dissolve(src, "ADM1_PCODE")), ADM1_COLS)
deriveAdmin2(src) == select(src, ADM2_COLS)
deriveCombined(a0, a1, a2) ==
    concat(with_admLevel(a0, 0), with_admLevel(a1, 1), with_admLevel(a2, 2))

(***************************************************************************)
(* Files.  A path in the temporary directory is a pair <<dir, name>>: the  *)
(* directory below temp_path ("" for temp_path itself) and the file name.  *)
(* A file holds [part, data]: which shapefile component it is and the      *)
(* dataset it was written from.  A zip archive holds a sequence of entries *)
(* [name, content] in the order they were added.                           *)
(***************************************************************************)
SHAPEFILE == <<"SHP_ADM2_UPDATE", "mdg_bnd_adm2_dis_pam.shp">>

LEVELS == <<"mdg_adm0", "mdg_adm1", "mdg_adm2", "mdg_adm_ALL">>
EXTS   == <<".shp", ".shx", ".dbf", ".prj", ".cpg", ".sbn", ".sbx", ".shp.xml">>

\* The components to_file() writes for a dataset that has a CRS.
WRITTEN == {".shp", ".shx", ".dbf", ".prj", ".cpg"}

NoFile    == [exists |-> FALSE, entries |-> <<>>]
NoDir     == [exists |-> FALSE, files |-> <<>>]
NoFiles   == [p \in {} |-> NoData]

\* zip_ref.extractall(temp_path): every entry lands under its own path.
extractall(archive) == archive.entries

\* ds.to_file(temp_path / (base + ".shp")): the component set of the dataset,
\* replacing any file of the same name.
to_file(files, base, ds) ==
    LET new == {<<"", base \o e>> : e \in WRITTEN}
    IN  [p \in DOMAIN files \cup new |->
            IF p \in new
            THEN [part |-> CHOOSE e \in WRITTEN : p[2] = base \o e, data |-> ds]
            ELSE files[p]]

\* temp_path / f"{admin_level}{ext}"
file_path(l, e) == <<"", LEVELS[l] \o EXTS[e]>>

\* An archive name that keeps the directory part of the path.
arcname_full(p) == p[1] \o "/" \o p[2]

\* file_path.name: the archive name of an entry.
arcname(p) == p[2]

\* ZipFile(output_zip, 'a'): the archive is opened keeping what it holds.
zip_open_append(old) == [exists |-> TRUE, entries |-> old.entries]

\* ZipFile(output_zip, 'w'): the file is created, or truncated if it exists.
zip_open_w(old) == [exists |-> TRUE, entries |-> <<>>]

\* if file_path.exists(): zip_ref.write(file_path, file_path.name)
zip_write(archive, files, p) ==
    IF p \in DOMAIN files
    THEN [archive EXCEPT !.entries =
            Append(@, [name |-> arcname(p), content |-> files[p]])]
    ELSE archive

\* A cleanup that is skipped when the run raised.
cleanup_on_success(dir, raised) == IF raised THEN dir ELSE NoDir

\* TemporaryDirectory.__exit__: the directory and all it holds are removed,
\* whether or not the block raised.
cleanup(dir, raised) == NoDir

(***************************************************************************)
(* Inputs.                                                                 *)
(***************************************************************************)
Geom(S) == {<<"m", i>> : i \in S}

\* A source record.
Row(k0, e0, k1, e1, t1, i, g) ==
    [c \in SRC_COLS |->
        CASE c = "ADM0_PCODE" -> k0
          [] c = "ADM0_EN"    -> e0
          [] c = "ADM1_PCODE" -> k1
          [] c = "ADM1_EN"    -> e1
          [] c = "ADM1_TYPE"  -> t1
          [] c = "ADM2_PCODE" -> "D" \o ToString(i)
          [] c = "ADM2_EN"    -> "District " \o ToString(i)
          [] c = "ADM2_TYPE"  -> "District"
          [] c = "Shape_Area" -> "area " \o ToString(i)
          [] OTHER            -> Geom(g)]

\* The name and type fields a source record may carry.
Profiles ==
    <<[e0 |-> "Madagascar",   e1 |-> "Diana", t1 |-> "Region"],
      [e0 |-> Null,           e1 |-> "Sava",  t1 |-> Null],
      [e0 |-> "Madagasikara", e1 |-> Null,    t1 |-> "Province"]>>

\* What InitFn draws for each source record: its codes, its names, and
\* whether its polygon overlaps the next record's.
RecChoices ==
    [k0 : {Null, "MG", "KM"}, k1 : {Null, "MG11", "MG12"},
     prof : DOMAIN Profiles, overlap : BOOLEAN]

FnRows(ch) ==
    [i \in DOMAIN ch |->
        Row(ch[i].k0, Profiles[ch[i].prof].e0, ch[i].k1,
            Profiles[ch[i].prof].e1, Profiles[ch[i].prof].t1, i,
            IF ch[i].overlap THEN {i, i + 1} ELSE {i})]

\* The row sequences the pipeline specification draws its source from.
PipeRows ==
    {<<Row("MG", "Madagascar", "MG12", "Sava", "Region", 1, {1}),
       Row("MG", Null, "MG11", Null, "Region", 2, {2}),
       Row("MG", "Madagasikara", "MG11", "Diana", Null, 3, {3})>>,
     <<Row("MG", "Madagascar", "MG11", "Diana", "Region", 1, {1, 2}),
       Row(Null, "Comoros", Null, "Mwali", "Island", 2, {2}),
       Row("KM", "Comores", "MG11", "DIANA", "Region", 3, {3})>>}

Source(crs, cols, rows) ==
    [crs |-> crs, cols |-> cols,
     rows |-> [i \in DOMAIN rows |-> [c \in cols |-> rows[i][c]]]]

\* A dataset left in the input archive by some earlier tool.
StaleData == Source(EPSG3395, SRC_COLS, <<Row("MG", "x", "MG11", "x", "x", 9, {9})>>)

\* Entries an input archive may hold at its top level besides the shapefile.
ExtraEntries == {<<"", "mdg_adm0.shp.xml">>, <<"", "mdg_adm1.shp">>}

Archive(hasShp, src, extras) ==
    LET paths == (IF hasShp THEN {SHAPEFILE} ELSE {}) \cup extras
    IN  [exists  |-> TRUE,
         entries |-> [p \in paths |->
                        IF p = SHAPEFILE THEN [part |-> ".shp", data |-> src]
                        ELSE [part |-> Null, data |-> StaleData]]]

PipeSources ==
    {Source(crs, cols, rows) :
        crs \in {EPSG3395, EPSG4326, Null},
        cols \in {SRC_COLS, SRC_COLS \ {"ADM1_TYPE"}},
        rows \in PipeRows}

PipeInputs ==
    {NoFile}
    \cup {Archive(FALSE, NoData, {})}
    \cup {Archive(TRUE, src, extras) :
             src \in PipeSources, extras \in SUBSET ExtraEntries}

(***************************************************************************)
(* main().                                                                 *)
(***************************************************************************)
Running == {"extract", "read", "to_crs", "adm0", "adm1", "adm2", "all",
            "save0", "save1", "save2", "save3", "zip_open", "zip_write"}

Init ==
    /\ pc = "idle"
    /\ run = 0
    /\ input_zip \in PipeInputs
    /\ output_zip = NoFile
    /\ temp_dir = NoDir
    /\ gdf = NoData /\ adm0 = NoData /\ adm1 = NoData /\ adm2 = NoData
    /\ all_levels = NoData
    /\ admin_level = 1 /\ ext = 1
    /\ failedAt = "none"
    /\ nReproject = 0
    /\ preOut = NoFile
    /\ lastDone = NoFile

\* The state after a successful extraction and load, for a source drawn from
\* the record choices.
InitFn ==
    /\ pc = "to_crs"
    /\ run = 1
    /\ \E ch \in UNION {[1..n -> RecChoices] : n \in 1..MaxRecs} :
          /\ gdf = Source(EPSG3395, SRC_COLS, FnRows(ch))
          /\ input_zip = Archive(TRUE, gdf, {})
    /\ output_zip = NoFile
    /\ temp_dir = [exists |-> TRUE, files |-> extractall(input_zip)]
    /\ adm0 = NoData /\ adm1 = NoData /\ adm2 = NoData
    /\ all_levels = NoData
    /\ admin_level = 1 /\ ext = 1
    /\ failedAt = "none"
    /\ nReproject = 0
    /\ preOut = NoFile
    /\ lastDone = NoFile

\* An exception leaves the with-blocks: the zip archive, if open, is closed
\* with the entries added so far, and the temporary directory is cleaned up.
Raise ==
    /\ pc' = "aborted"
    /\ failedAt' = pc
    /\ temp_dir' = cleanup(temp_dir, TRUE)

\* main() is started: the paths are fixed and the temporary directory made.
Start ==
    /\ pc \in {"idle", "done", "aborted"}
    /\ run < MaxRuns
    /\ run' = run + 1
    /\ pc' = "extract"
    /\ temp_dir' = [exists |-> TRUE, files |-> NoFiles]
    /\ gdf' = NoData /\ adm0' = NoData /\ adm1' = NoData /\ adm2' = NoData
    /\ all_levels' = NoData
    /\ admin_level' = 1 /\ ext' = 1
    /\ failedAt' = "none"
    /\ nReproject' = 0
    /\ preOut' = output_zip
    /\ UNCHANGED <<input_zip, output_zip, lastDone>>

\* with zipfile.ZipFile(input_zip, 'r') as zip_ref: zip_ref.extractall(...)
Extract ==
    /\ pc = "extract"
    /\ IF input_zip.exists
       THEN /\ temp_dir' = [temp_dir EXCEPT !.files = extractall(input_zip)]
            /\ pc' = "read"
            /\ UNCHANGED failedAt
       ELSE Raise
    /\ UNCHANGED <<run, input_zip, output_zip, gdf, adm0, adm1, adm2,
                   all_levels, admin_level, ext, nReproject, preOut, lastDone>>

\* gdf = gpd.read_file(shapefile_path)
Read ==
    /\ pc = "read"
    /\ IF SHAPEFILE \in DOMAIN temp_dir.files
       THEN /\ gdf' = temp_dir.files[SHAPEFILE].data
            /\ pc' = "to_crs"
            /\ UNCHANGED <<temp_dir, failedAt>>
       ELSE Raise /\ UNCHANGED gdf
    /\ UNCHANGED <<run, input_zip, output_zip, adm0, adm1, adm2,
                   all_levels, admin_level, ext, nReproject, preOut, lastDone>>

\* gdf = gdf.to_crs('EPSG:4326'); a dataset without a CRS cannot be
\* transformed.
Reproject ==
    /\ pc = "to_crs"
    /\ IF gdf.crs # Null
       THEN /\ gdf' = to_crs(gdf, EPSG4326)
            /\ nReproject' = nReproject + 1
            /\ pc' = "adm0"
            /\ UNCHANGED <<temp_dir, failedAt>>
       ELSE Raise /\ UNCHANGED <<gdf, nReproject>>
    /\ UNCHANGED <<run, input_zip, output_zip, adm0, adm1, adm2,
                   all_levels, admin_level, ext, preOut, lastDone>>

\* adm0 = gdf.dissolve(by='ADM0_PCODE', aggfunc='first'), reset_index(),
\* column selection; a column that is absent raises.
DeriveAdmin0 ==
    /\ pc = "adm0"
    /\ IF ADM0_COLS \subseteq gdf.cols
       THEN /\ adm0' = deriveAdmin0(gdf)
            /\ pc' = "adm1"
            /\ UNCHANGED <<temp_dir, failedAt>>
       ELSE Raise /\ UNCHANGED adm0
    /\ UNCHANGED <<run, input_zip, output_zip, gdf, adm1, adm2, all_levels,
                   admin_level, ext, nReproject, preOut, lastDone>>

\* adm1 = gdf.dissolve(by='ADM1_PCODE', aggfunc='first'), reset_index(),
\* column selection.
DeriveAdmin1 ==
    /\ pc = "adm1"
    /\ IF ADM1_COLS \subseteq gdf.cols
       THEN /\ adm1' = deriveAdmin1(gdf)
            /\ pc' = "adm2"
            /\ UNCHANGED <<temp_dir, failedAt>>
       ELSE Raise /\ UNCHANGED adm1
    /\ UNCHANGED <<run, input_zip, output_zip, gdf, adm0, adm2, all_levels,
                   admin_level, ext, nReproject, preOut, lastDone>>

\* adm2 = gdf[[...]].copy()
DeriveAdmin2 ==
    /\ pc = "adm2"
    /\ IF ADM2_COLS \subseteq gdf.cols
       THEN /\ adm2' = deriveAdmin2(gdf)
            /\ pc' = "all"
            /\ UNCHANGED <<temp_dir, failedAt>>
       ELSE Raise /\ UNCHANGED adm2
    /\ UNCHANGED <<run, input_zip, output_zip, gdf, adm0, adm1, all_levels,
                   admin_level, ext, nReproject, preOut, lastDone>>

\* adm0_all, adm1_all, adm2_all and their concatenation.
DeriveCombined ==
    /\ pc = "all"
    /\ all_levels' = deriveCombined(adm0, adm1, adm2)
    /\ pc' = "save0"
    /\ UNCHANGED <<run, input_zip, output_zip, temp_dir, gdf, adm0, adm1,
                   adm2, admin_level, ext, failedAt, nReproject, preOut,
                   lastDone>>

\* The dataset each to_file statement saves.
Saved(k) == CASE k = 1 -> adm0 [] k = 2 -> adm1 [] k = 3 -> adm2
              [] OTHER -> all_levels

SavePc == <<"save0", "save1", "save2", "save3">>

\* adm0.to_file(adm0_path) ... all_levels.to_file(all_path), one at a time.
Save ==
    /\ \E k \in DOMAIN SavePc :
          /\ pc = SavePc[k]
          /\ temp_dir' = [temp_dir EXCEPT
                             !.files = to_file(@, LEVELS[k], Saved(k))]
          /\ pc' = IF k < Len(SavePc) THEN SavePc[k + 1] ELSE "zip_open"
    /\ UNCHANGED <<run, input_zip, output_zip, gdf, adm0, adm1, adm2,
                   all_levels, admin_level, ext, failedAt, nReproject,
                   preOut, lastDone>>

\* with zipfile.ZipFile(output_zip, 'w', zipfile.ZIP_DEFLATED) as zip_ref:
ZipOpen ==
    /\ pc = "zip_open"
    /\ output_zip' = zip_open_w(output_zip)
    /\ admin_level' = 1 /\ ext' = 1
    /\ pc' = "zip_write"
    /\ UNCHANGED <<run, input_zip, temp_dir, gdf, adm0, adm1, adm2,
                   all_levels, failedAt, nReproject, preOut, lastDone>>

\* One iteration of the nested loops over base names and extensions.
ZipWrite ==
    /\ pc = "zip_write"
    /\ admin_level <= Len(LEVELS)
    /\ output_zip' = zip_write(output_zip, temp_dir.files,
                               file_path(admin_level, ext))
    /\ IF ext < Len(EXTS)
       THEN ext' = ext + 1 /\ UNCHANGED admin_level
       ELSE ext' = 1 /\ admin_level' = admin_level + 1
    /\ UNCHANGED <<pc, run, input_zip, temp_dir, gdf, adm0, adm1, adm2,
                   all_levels, failedAt, nReproject, preOut, lastDone>>

\* The loops are over: the archive is closed, the messages printed and the
\* temporary directory cleaned up.
Finish ==
    /\ pc = "zip_write"
    /\ admin_level > Len(LEVELS)
    /\ pc' = "done"
    /\ temp_dir' = cleanup(temp_dir, FALSE)
    /\ lastDone' = output_zip
    /\ UNCHANGED <<run, input_zip, output_zip, gdf, adm0, adm1, adm2,
                   all_levels, admin_level, ext, failedAt, nReproject, preOut>>

\* Any statement of the run may raise for a reason outside the program (an
\* I/O error, a full disk, no memory).
Fail ==
    /\ pc \in Running
    /\ Raise
    /\ UNCHANGED <<run, input_zip, output_zip, gdf, adm0, adm1, adm2,
                   all_levels, admin_level, ext, nReproject, preOut, lastDone>>

Next ==
    \/ Start \/ Extract \/ Read \/ Reproject
    \/ DeriveAdmin0 \/ DeriveAdmin1 \/ DeriveAdmin2 \/ DeriveCombined
    \/ Save \/ ZipOpen \/ ZipWrite \/ Finish \/ Fail

Spec == Init /\ [][Next]_vars

\* The derivations alone, from a loaded source.
NextFn ==
    \/ Reproject
    \/ DeriveAdmin0 \/ DeriveAdmin1 \/ DeriveAdmin2 \/ DeriveCombined

SpecFn == InitFn /\ [][NextFn]_vars

(***************************************************************************)
(* Properties of a run of main(), checked under Spec.                      *)
(***************************************************************************)
Ended == pc \in {"done", "aborted"}

\* The statements of main() in program order.
PcOrder == <<"extract", "read", "to_crs", "adm0", "adm1", "adm2", "all",
             "save0", "save1", "save2", "save3", "zip_open", "zip_write",
             "done">>

Pos(p) == CHOOSE i \in DOMAIN PcOrder : PcOrder[i] = p

\* The run is past the statement p.
Past(p) == pc \in {PcOrder[i] : i \in DOMAIN PcOrder} /\ Pos(pc) > Pos(p)

Derived == <<adm0, adm1, adm2, all_levels>>

\* C1: whenever a run of main() has ended, completed or aborted at whatever
\* statement, the temporary directory no longer exists and holds no file.
C1_ScratchRemoved ==
    Ended => (~temp_dir.exists /\ DOMAIN temp_dir.files = {})

\* A run that raised while adding entries to the output archive, after the
\* four datasets had been saved into the temporary directory.
C1_Witness == pc = "aborted" /\ failedAt = "zip_write" /\ admin_level = 3

\* The four shapefile sets: every component to_file writes, for every level.
FullSetNames == {LEVELS[l] \o e : l \in DOMAIN LEVELS, e \in WRITTEN}

EntryNames(archive) ==
    {archive.entries[i].name : i \in DOMAIN archive.entries}

\* C2: output is all-or-nothing: a run that aborted has left the file at the
\* output path as it was when the run started, and a run that completed has
\* left an archive holding all four shapefile sets.
C2_AllOrNothing ==
    /\ pc = "aborted" => output_zip = preOut
    /\ pc = "done" => (output_zip.exists
                       /\ FullSetNames \subseteq EntryNames(output_zip))

\* The coordinates of every record of a dataset are in degrees.
InDegrees(ds) ==
    \A i \in DOMAIN ds.rows : \A p \in ds.rows[i]["geometry"] : p[1] = "deg"

\* C8: to_crs('EPSG:4326') is applied exactly once, to the source, before any
\* derivation: every derived dataset and every dataset saved so far carries
\* EPSG:4326 with coordinates in degrees, and a run whose reprojection
\* raised has derived nothing and has not touched the output archive.
C8_ReprojectedOnceFirst ==
    /\ nReproject <= 1
    /\ \A k \in DOMAIN Derived :
          Derived[k] # NoData =>
             /\ nReproject = 1
             /\ gdf.crs = EPSG4326 /\ InDegrees(gdf)
             /\ Derived[k].crs = EPSG4326 /\ InDegrees(Derived[k])
    /\ \A k \in DOMAIN SavePc :
          (pc \in Running /\ Past(SavePc[k])) =>
             \A e \in WRITTEN :
                /\ <<"", LEVELS[k] \o e>> \in DOMAIN temp_dir.files
                /\ temp_dir.files[<<"", LEVELS[k] \o e>>].data.crs = EPSG4326
                /\ InDegrees(temp_dir.files[<<"", LEVELS[k] \o e>>].data)
    /\ failedAt = "to_crs" =>
          /\ \A k \in DOMAIN Derived : Derived[k] = NoData
          /\ output_zip = preOut

\* A completed run whose source was in EPSG:3395 and whose input archive held
\* a stale mdg_adm1.shp that the save step replaced.
C8_Witness ==
    /\ pc = "zip_write"
    /\ input_zip.entries[SHAPEFILE].data.crs = EPSG3395
    /\ <<"", "mdg_adm1.shp">> \in DOMAIN input_zip.entries

\* The pairs of the packaging loops visited so far, in loop order.
Visited ==
    {le \in (DOMAIN LEVELS) \X (DOMAIN EXTS) :
        le[1] < admin_level \/ (le[1] = admin_level /\ le[2] < ext)}

\* C9: while packaging, and when the loops are over, the entries of the
\* output archive are exactly the visited (base name, extension) pairs whose
\* file exists in the temporary directory: each once, under its base file
\* name with no directory part, holding that file; a pair whose file does not
\* exist adds nothing and does not stop the loops.
C9_EntriesAreExistingPairs ==
    /\ pc = "zip_write" =>
          /\ \A le \in Visited :
                LET name == LEVELS[le[1]] \o EXTS[le[2]]
                    hits == {i \in DOMAIN output_zip.entries :
                                output_zip.entries[i].name = name}
                IN  IF <<"", name>> \in DOMAIN temp_dir.files
                    THEN /\ Cardinality(hits) = 1
                         /\ \A i \in hits : output_zip.entries[i].content
                                              = temp_dir.files[<<"", name>>]
                    ELSE hits = {}
          /\ \A i \in DOMAIN output_zip.entries :
                \E le \in Visited :
                   output_zip.entries[i].name = LEVELS[le[1]] \o EXTS[le[2]]
    /\ pc = "done" =>
          /\ FullSetNames \subseteq EntryNames(output_zip)
          /\ EntryNames(output_zip) \subseteq
                {LEVELS[l] \o EXTS[e] : l \in DOMAIN LEVELS, e \in DOMAIN EXTS}
          /\ Cardinality(EntryNames(output_zip)) = Len(output_zip.entries)

\* The loops are over for a temporary directory that holds one .shp.xml
\* sidecar (from the input archive) and lacks the others.
C9_Witness ==
    /\ pc = "zip_write" /\ admin_level > Len(LEVELS)
    /\ <<"", "mdg_adm0.shp.xml">> \in DOMAIN temp_dir.files
    /\ <<"", "mdg_adm1.shp.xml">> \notin DOMAIN temp_dir.files
    /\ "mdg_adm0.shp.xml" \in EntryNames(output_zip)

\* C10: no step of main() changes the input archive, and a run that
\* completes leaves at the output path the archive the last completed run
\* left there, whatever the path held when the run started.
C10_Idempotent ==
    [][/\ input_zip' = input_zip
       /\ (pc' = "done" /\ pc # "done" /\ lastDone.exists)
             => output_zip' = lastDone]_vars

\* A second run has completed over the archive a first run left.
C10_Witness ==
    /\ pc = "done" /\ run >= 2
    /\ preOut.exists /\ Len(preOut.entries) > 0
    /\ lastDone = output_zip

(***************************************************************************)
(* Properties of the derivations, checked under SpecFn.  They relate each  *)
(* derived dataset to gdf, the reprojected source it was derived from.     *)
(***************************************************************************)
MinOf(S) == CHOOSE m \in S : \A o \in S : m <= o

\* The source rows whose column `by` holds k.
RowsOf(by, k) == {i \in DOMAIN gdf.rows : gdf.rows[i][by] = k}

\* The distinct codes present in column `by` of the source.
Codes(by) == {gdf.rows[i][by] : i \in DOMAIN gdf.rows} \ {Null}

\* The union of the geometries of the source rows in I.
GeomOf(I) == UNION {gdf.rows[i]["geometry"] : i \in I}

\* The geometry covered by a dataset.
Cover(ds) == UNION {ds.rows[j]["geometry"] : j \in DOMAIN ds.rows}

\* The value of column c held by the first member of group k.
FirstMemberValue(by, k, c) == gdf.rows[MinOf(RowsOf(by, k))][c]

\* The first value of column c among the members of group k that is not
\* missing.
FirstPresentValue(by, k, c) ==
    LET I == {i \in RowsOf(by, k) : gdf.rows[i][c] # Null}
    IN  IF I = {} THEN Null ELSE gdf.rows[MinOf(I)][c]

\* C3, as claimed: every attribute of a dissolved record equals the value
\* held by the first member of its group in row order, whatever that value.
C3_FirstMemberWins ==
    /\ adm0 # NoData =>
          \A j \in DOMAIN adm0.rows : \A c \in ADM0_COLS \ {"geometry"} :
             adm0.rows[j][c]
                = FirstMemberValue("ADM0_PCODE", adm0.rows[j]["ADM0_PCODE"], c)
    /\ adm1 # NoData =>
          \A j \in DOMAIN adm1.rows : \A c \in ADM1_COLS \ {"geometry"} :
             adm1.rows[j][c]
                = FirstMemberValue("ADM1_PCODE", adm1.rows[j]["ADM1_PCODE"], c)

\* C3, amended: every attribute of a dissolved record equals the first value
\* of that attribute, in row order, among the members of its group that hold
\* one, and is missing when no member holds one.
C3_FirstPresentWins ==
    /\ adm0 # NoData =>
          \A j \in DOMAIN adm0.rows : \A c \in ADM0_COLS \ {"geometry"} :
             adm0.rows[j][c]
                = FirstPresentValue("ADM0_PCODE", adm0.rows[j]["ADM0_PCODE"], c)
    /\ adm1 # NoData =>
          \A j \in DOMAIN adm1.rows : \A c \in ADM1_COLS \ {"geometry"} :
             adm1.rows[j][c]
                = FirstPresentValue("ADM1_PCODE", adm1.rows[j]["ADM1_PCODE"], c)

\* Admin 1 was derived from a source in which two records share a regional
\* code, the first holding no ADM1_EN and a national name that differs from
\* the second's.
C3_Witness ==
    /\ adm1 # NoData
    /\ Len(gdf.rows) >= 2
    /\ gdf.rows[1]["ADM1_PCODE"] = gdf.rows[2]["ADM1_PCODE"]
    /\ gdf.rows[1]["ADM1_PCODE"] # Null
    /\ gdf.rows[1]["ADM1_EN"] = Null /\ gdf.rows[2]["ADM1_EN"] # Null
    /\ gdf.rows[1]["ADM0_EN"] # Null /\ gdf.rows[2]["ADM0_EN"] # Null
    /\ gdf.rows[1]["ADM0_EN"] # gdf.rows[2]["ADM0_EN"]

\* One record of ds per code of the source column `by`.
OnePerCode(ds, by) ==
    /\ Len(ds.rows) = Cardinality(Codes(by))
    /\ \A k \in Codes(by) :
          Cardinality({j \in DOMAIN ds.rows : ds.rows[j][by] = k}) = 1

\* Each record of ds holds the union of the geometries of the source records
\* that carry its code.
GroupGeometry(ds, by) ==
    \A j \in DOMAIN ds.rows :
       ds.rows[j]["geometry"] = GeomOf(RowsOf(by, ds.rows[j][by]))

\* C4, as claimed: Admin 1 has one record per distinct regional code, every
\* source geometry is contained in exactly one Admin 1 geometry, and Admin 1
\* covers what the source covers.
C4_PartitionOfSource ==
    adm1 # NoData =>
       /\ OnePerCode(adm1, "ADM1_PCODE")
       /\ \A i \in DOMAIN gdf.rows :
             Cardinality({j \in DOMAIN adm1.rows :
                 gdf.rows[i]["geometry"] \subseteq adm1.rows[j]["geometry"]}) = 1
       /\ Cover(adm1) = Cover(gdf)

\* C4, amended: Admin 1 has one record per distinct regional code that is
\* not missing; each holds the union of the geometries of the source records
\* carrying its code, so every source record with a code is contained in the
\* record of its code, and Admin 1 covers what the source records with a
\* code cover.
C4_UnionPerCode ==
    adm1 # NoData =>
       /\ OnePerCode(adm1, "ADM1_PCODE")
       /\ GroupGeometry(adm1, "ADM1_PCODE")
       /\ \A i \in DOMAIN gdf.rows :
             gdf.rows[i]["ADM1_PCODE"] # Null =>
                \E j \in DOMAIN adm1.rows :
                   /\ adm1.rows[j]["ADM1_PCODE"] = gdf.rows[i]["ADM1_PCODE"]
                   /\ gdf.rows[i]["geometry"] \subseteq adm1.rows[j]["geometry"]
       /\ Cover(adm1)
             = GeomOf({i \in DOMAIN gdf.rows : gdf.rows[i]["ADM1_PCODE"] # Null})

\* Admin 1 was derived from two records of one region whose polygons differ.
C4_Witness ==
    /\ adm1 # NoData
    /\ Len(gdf.rows) >= 2
    /\ gdf.rows[1]["ADM1_PCODE"] = gdf.rows[2]["ADM1_PCODE"]
    /\ gdf.rows[1]["ADM1_PCODE"] # Null
    /\ gdf.rows[1]["geometry"] # gdf.rows[2]["geometry"]
    /\ Len(adm1.rows) = 1

Scenario ==
    Source(EPSG4326, SRC_COLS,
           [i \in 1..120 |->
               Row("MG", "Madagascar", CodeOrder[3 + ((i - 1) % 22)],
                   "Region " \o ToString((i - 1) % 22), "Region", i, {i})])

ScenarioCounts ==
    LET a0 == deriveAdmin0(Scenario)
        a1 == deriveAdmin1(Scenario)
        a2 == deriveAdmin2(Scenario)
    IN  <<Len(a0.rows), Len(a1.rows), Len(a2.rows),
          Len(deriveCombined(a0, a1, a2).rows)>>

\* Rows off+1 .. off+Len(part.rows) of ds are the rows of part, in order,
\* each tagged with the level.
Block(ds, off, part, level) ==
    \A i \in DOMAIN part.rows :
       /\ ds.rows[off + i]["admLevel"] = level
       /\ \A c \in part.cols : ds.rows[off + i][c] = part.rows[i][c]

\* C6: the combined dataset holds len(adm0)+len(adm1)+len(adm2) records: the
\* Admin 0 records, then the Admin 1 records, then the Admin 2 records, each
\* block in its dataset's order and tagged admLevel 0, 1, 2; for 120
\* districts in 22 regions of one country the four datasets hold 1, 22, 120
\* and 143 records.
C6_CombinedBlocks ==
    /\ all_levels # NoData =>
          /\ Len(all_levels.rows)
                = Len(adm0.rows) + Len(adm1.rows) + Len(adm2.rows)
          /\ Block(all_levels, 0, adm0, 0)
          /\ Block(all_levels, Len(adm0.rows), adm1, 1)
          /\ Block(all_levels, Len(adm0.rows) + Len(adm1.rows), adm2, 2)
    /\ ScenarioCounts = <<1, 22, 120, 143>>

\* The combined dataset was built from two countries, two regions and two
\* districts.
C6_Witness ==
    /\ all_levels # NoData
    /\ Len(adm0.rows) = 2 /\ Len(adm1.rows) = 2 /\ Len(adm2.rows) = 2
    /\ Len(all_levels.rows) = 6

\* C7: Admin 2 has one record per source record, in the same order, each
\* with the source record's geometry and exactly the nine hierarchical
\* columns, holding the source record's values.
C7_Admin2PassThrough ==
    adm2 # NoData =>
       /\ Len(adm2.rows) = Len(gdf.rows)
       /\ \A i \in DOMAIN gdf.rows :
             /\ DOMAIN adm2.rows[i] = ADM2_COLS
             /\ \A c \in ADM2_COLS : adm2.rows[i][c] = gdf.rows[i][c]

\* Admin 2 was derived from two records with different polygons.
C7_Witness ==
    /\ adm2 # NoData
    /\ Len(gdf.rows) = 2
    /\ gdf.rows[1]["geometry"] # gdf.rows[2]["geometry"]
    /\ "Shape_Area" \in DOMAIN gdf.rows[1]

====
